---- MODULE Spec2Model ----
(***************************************************************************)
(* Conway's Game of Life on a toroidal board, rendered with ncurses        *)
(* (life.cpp).  The module models                                          *)
(*   - the pure parts: stoi, checkArgs, countNbors, life;                  *)
(*   - main: argument check, construction, the getch loop with the         *)
(*     priming call of life and the two threads t1 (print) and t2 (life).  *)
(***************************************************************************)
EXTENDS Integers, Sequences, FiniteSets, TLC

VARIABLES
    argc,       \* main's argc
    argv1,      \* argv[1] as a sequence of characters (<<>> when absent)
    pc,         \* position of the main thread
    exitStatus, \* int exitStatus of main (line 27)
    out,        \* what checkArgs wrote to cout: "none", "usage", "range"
    dim,        \* size_t dim of main (line 30)
    board,      \* Matrix board of main (line 31): board[y][x]
    kbd,        \* pending keyboard input read by getch
    key,        \* result of the last getch
    term,       \* terminal mode: "shell", "curses", "restored"
    endwins,    \* number of calls of endwin
    frame,      \* cells drawn since the last move(0, 0), in drawing order
    t1,         \* thread t1 (print): [pc, board, pos]
    t2,         \* thread t2 (life on main's board): [pc, newBoard]
    G0,         \* history: the board randBoard produced
    primed,     \* history: the board after the latest synchronous life call
    cycles,     \* history: loop bodies entered
    hBoard,     \* direct calls: the board handed to life / countNbors
    hInit,      \* direct calls: the board first handed in
    hPrev,      \* direct calls: the board before the latest call
    hShift,     \* direct calls: a cyclic shift <<a, b>>
    hShifted,   \* direct calls: the shifted board, stepped alongside
    hSteps,     \* direct calls: number of life calls made
    hNew,       \* one pass of life, cell by cell: newBoard
    hDone,      \* one pass of life, cell by cell: cells evaluated so far
    hCell,      \* direct calls: the cell <<x, y>> handed to countNbors
    hCount,     \* direct calls: what countNbors returned, -1 before a call
    hIdx        \* direct calls: per offset <<i, j>>, the <<y_p, x_p>> indexed

mainVars == <<argc, argv1, pc, exitStatus, out, dim, board, kbd, key, term,
              endwins, frame, t1, t2, G0, primed, cycles>>
countVars == <<hCell, hCount, hIdx>>
callVars == <<hBoard, hInit, hPrev, hShift, hShifted, hSteps, hNew, hDone,
              countVars>>
vars == <<mainVars, callVars>>

(***************************************************************************)
(* Bounds                                                                  *)
(***************************************************************************)
MaxDim == 3        \* largest board of which every filling is handed to life
MaxSteps == 2      \* life calls made in a row on a board handed in directly
MaxShiftDim == 4   \* largest board handed to life next to its shift
MaxSparseDim == 5  \* largest sparsely filled board handed to life
MaxAlive == 4      \* alive cells of a sparsely filled board
MaxPassDim == 2    \* largest board whose pass is followed cell by cell
MaxRunDim == 3     \* largest dimension given to main
MaxCycles == 2     \* loop bodies main enters
MaxKbd == 1        \* keys typed and not yet read
MaxQuitDim == 2     \* largest dimension given to main when it is scheduled fairly
MaxArgDim == 41    \* largest dimension offered to checkArgs for a direct call

(***************************************************************************)
(* Boards: Matrix = vector<vector<bool>>, indexed board[y][x] from 0       *)
(***************************************************************************)
Idx(n) == 0 .. (n - 1)

Matrix(n) == [Idx(n) -> [Idx(n) -> BOOLEAN]]

\* board.size()
Size(b) == Cardinality(DOMAIN b)

\* Matrix board(dim, Vector(dim, false))
AllFalse(n) == [y \in Idx(n) |-> [x \in Idx(n) |-> FALSE]]

(***************************************************************************)
(* C++ arithmetic used by countNbors                                       *)
(***************************************************************************)
\* int % int truncates toward zero: the remainder has the dividend's sign
CRem(a, n) == IF a >= 0 THEN a % n ELSE -((-a) % n)

\* int is 32 bits wide and size_t 64: a value is kept as its 16-bit limbs,
\* least significant first, two limbs for an int and four for a size_t
Limb == 65536

\* int -> size_t: the two's complement bits of i, sign-extended to 64 bits
ToSizeT(i) ==
    LET ext == IF i < 0 THEN Limb - 1 ELSE 0
    IN  <<i % Limb, (i \div Limb) % Limb, ext, ext>>

\* size_t + size_t, modulo 2^64: the carry out of the top limb is dropped
SizeTAdd(u, v) ==
    LET s1 == u[1] + v[1]
        s2 == u[2] + v[2] + (s1 \div Limb)
        s3 == u[3] + v[3] + (s2 \div Limb)
        s4 == u[4] + v[4] + (s3 \div Limb)
    IN  <<s1 % Limb, s2 % Limb, s3 % Limb, s4 % Limb>>

\* size_t -> int keeps the low 32 bits, read as two's complement
ToInt(u) ==
    IF u[2] >= Limb \div 2
    THEN (u[2] - Limb) * Limb + u[1]
    ELSE u[2] * Limb + u[1]

\* a variant of WrapNeg that mirrors a negative remainder (-p) and does
\* not wrap it
WrapNegMirror(p, size) == IF p < 0 THEN -p ELSE p

\* x_p = x_p < 0 ? x_p + board.size() : x_p
\* (x_p is converted to size_t, added to board.size(), converted back)
WrapNeg(p, size) ==
    IF p < 0 THEN ToInt(SizeTAdd(ToSizeT(p), ToSizeT(size))) ELSE p

(***************************************************************************)
(* countNbors (lines 160-178): every offset pair (i, j) of -1..1 x -1..1   *)
(* is visited, the pair (0, 0) included.                                   *)
(***************************************************************************)
Offsets == (-1 .. 1) \X (-1 .. 1)

\* a variant of countNbors that counts no cell across the border
countNborsNoWrap(b, x, y) ==
    LET n == Size(b)
    IN  Cardinality({ o \in Offsets :
            /\ y + o[1] \in Idx(n)
            /\ x + o[2] \in Idx(n)
            /\ b[y + o[1]][x + o[2]] })

countNbors(b, x, y) ==
    LET n   == Size(b)
        x_p(j) == WrapNeg(CRem(x + j, n), n)
        y_p(i) == WrapNeg(CRem(y + i, n), n)
    IN  Cardinality({ o \in Offsets : b[y_p(o[1])][x_p(o[2])] })

\* lines 166-170 alone: per offset <<i, j>> the pair <<y_p, x_p>> that
\* countNbors uses as index at line 172, on a board of size n
nborIdx(n, x, y) ==
    [o \in Offsets |-> <<WrapNeg(CRem(y + o[1], n), n),
                         WrapNeg(CRem(x + o[2], n), n)>>]

(***************************************************************************)
(* life (lines 121-152)                                                    *)
(***************************************************************************)
\* a variant of LifeCell that counts the neighbours on newBoard, as an update
\* in place would
LifeCellInPlace(b, newBoard, x, y) ==
    LET count == countNbors(newBoard, x, y)
    IN  IF newBoard[y][x]
        THEN IF count < 2 \/ count > 3
             THEN [newBoard EXCEPT ![y][x] = FALSE]
             ELSE newBoard
        ELSE IF count = 3
             THEN [newBoard EXCEPT ![y][x] = TRUE]
             ELSE newBoard

\* the loop body, lines 128-146, for the cell (x, y)
LifeCell(b, newBoard, x, y) ==
    LET count == countNbors(b, x, y)
    IN  IF b[y][x]
        THEN IF count < 2 \/ count > 3
             THEN [newBoard EXCEPT ![y][x] = FALSE]
             ELSE newBoard
        ELSE IF count = 3
             THEN [newBoard EXCEPT ![y][x] = TRUE]
             ELSE newBoard

\* a variant of lifeLoop whose dead cells come to life on a count of 2
RECURSIVE lifeLoopBirthOn2(_, _, _)
lifeLoopBirthOn2(b, newBoard, k) ==
    LET n == Size(b)
        x == k % n
        y == k \div n
        count == countNbors(b, x, y)
    IN  IF k >= n * n
        THEN newBoard
        ELSE lifeLoopBirthOn2(b,
                 IF b[y][x]
                 THEN IF count < 2 \/ count > 3
                      THEN [newBoard EXCEPT ![y][x] = FALSE]
                      ELSE newBoard
                 ELSE IF count = 2
                      THEN [newBoard EXCEPT ![y][x] = TRUE]
                      ELSE newBoard,
                 k + 1)

\* the two nested loops from cell number k on, rows outermost
RECURSIVE lifeLoop(_, _, _)
lifeLoop(b, newBoard, k) ==
    LET n == Size(b)
    IN  IF k >= n * n
        THEN newBoard
        ELSE lifeLoop(b, LifeCell(b, newBoard, k % n, k \div n), k + 1)

\* the value of board after life(board): newBoard starts as a copy
life(b) == lifeLoop(b, b, 0)

(***************************************************************************)
(* Vocabulary of the properties                                            *)
(***************************************************************************)
\* the alive cells among the 8 toroidally adjacent cells of (x, y), the cell
\* itself not counted (the adjacent cells are distinct for a size of 3 or more)
AliveAdjacent(b, x, y) ==
    LET n == Size(b)
    IN  Cardinality({ o \in Offsets \ {<<0, 0>>} :
            b[(y + o[1]) % n][(x + o[2]) % n] })

\* the board moved cyclically by a columns and b rows
shift(b, a, c) ==
    LET n == Size(b)
    IN  [y \in Idx(n) |-> [x \in Idx(n) |-> b[(y - c) % n][(x - a) % n]]]

Cells(b) == Idx(Size(b)) \X Idx(Size(b))

\* the board after n calls of life in a row
RECURSIVE lifeN(_, _)
lifeN(b, n) == IF n = 0 THEN b ELSE lifeN(life(b), n - 1)

(***************************************************************************)
(* Values of the variables a specification does not use                    *)
(***************************************************************************)
NoThread == [pc |-> "none", board |-> <<>>, pos |-> 0]
NoLife   == [pc |-> "none", newBoard |-> <<>>]

MainIdle ==
    /\ argc = 0 /\ argv1 = <<>> /\ pc = "none" /\ exitStatus = "EXIT_SUCCESS"
    /\ out = "none" /\ dim = 0 /\ board = <<>> /\ kbd = <<>> /\ key = "none"
    /\ term = "shell" /\ endwins = 0 /\ frame = <<>>
    /\ t1 = NoThread /\ t2 = NoLife
    /\ G0 = <<>> /\ primed = <<>> /\ cycles = 0

CallIdle ==
    /\ hBoard = <<>> /\ hInit = <<>> /\ hPrev = <<>> /\ hShift = <<0, 0>>
    /\ hShifted = <<>> /\ hSteps = 0 /\ hNew = <<>> /\ hDone = {}
    /\ hCell = <<0, 0>> /\ hCount = -1 /\ hIdx = <<>>

(***************************************************************************)
(* Boards given by their alive cells                                       *)
(***************************************************************************)
\* the subsets of S with at most k elements
RECURSIVE UpTo(_, _)
UpTo(S, k) ==
    IF k = 0
    THEN {{}}
    ELSE LET P == UpTo(S, k - 1)
         IN  P \cup { A \cup {e} : A \in P, e \in S }

\* the board of size n whose alive cells <<x, y>> are those of A
BoardOf(n, A) == [y \in Idx(n) |-> [x \in Idx(n) |-> <<x, y>> \in A]]

Alive(b) == { c \in Cells(b) : b[c[2]][c[1]] }

(***************************************************************************)
(* SpecLife: life called directly, as main calls it in line 43, on every   *)
(* board of size 1..MaxDim.                                                *)
(***************************************************************************)
InitLife ==
    /\ MainIdle
    /\ \E n \in 1 .. MaxDim : hBoard \in Matrix(n)
    /\ hInit = hBoard
    /\ hPrev = hBoard
    /\ hShift = <<0, 0>>
    /\ hShifted = <<>>
    /\ hSteps = 0
    /\ hNew = <<>>
    /\ hDone = {}
    /\ hCell = <<0, 0>> /\ hCount = -1 /\ hIdx = <<>>

\* life(board), the whole call
CallLife ==
    /\ pc = "none"
    /\ hShifted = <<>>
    /\ hNew = <<>>
    /\ hSteps < MaxSteps
    /\ hPrev' = hBoard
    /\ hBoard' = life(hBoard)
    /\ hSteps' = hSteps + 1
    /\ UNCHANGED <<mainVars, hInit, hShift, hShifted, hNew, hDone, countVars>>

NextLife == CallLife

SpecLife == InitLife /\ [][NextLife]_vars

(***************************************************************************)
(* SpecShift: life called on a board of size 3..MaxShiftDim holding at     *)
(* most MaxAlive alive cells, and on the same board shifted cyclically.    *)
(***************************************************************************)
InitShift ==
    /\ MainIdle
    /\ \E n \in 3 .. MaxShiftDim :
          /\ \E A \in UpTo(Idx(n) \X Idx(n), MaxAlive) : hBoard = BoardOf(n, A)
          /\ hShift \in Idx(n) \X Idx(n)
    /\ hInit = hBoard
    /\ hPrev = hBoard
    /\ hShifted = shift(hBoard, hShift[1], hShift[2])
    /\ hSteps = 0
    /\ hNew = <<>>
    /\ hDone = {}
    /\ hCell = <<0, 0>> /\ hCount = -1 /\ hIdx = <<>>

\* life(board) on the board and on the shifted board
CallLifeBoth ==
    /\ pc = "none"
    /\ hShifted # <<>>
    /\ hSteps < MaxSteps
    /\ hPrev' = hBoard
    /\ hBoard' = life(hBoard)
    /\ hShifted' = life(hShifted)
    /\ hSteps' = hSteps + 1
    /\ UNCHANGED <<mainVars, hInit, hShift, hNew, hDone, countVars>>

NextShift == CallLifeBoth

SpecShift == InitShift /\ [][NextShift]_vars

(***************************************************************************)
(* SpecPattern: life called on the boards of size 4..MaxSparseDim that     *)
(* hold at most MaxAlive alive cells (blocks and blinkers among them).     *)
(***************************************************************************)
InitPattern ==
    /\ MainIdle
    /\ \E n \in 4 .. MaxSparseDim :
          \E A \in UpTo(Idx(n) \X Idx(n), MaxAlive) : hBoard = BoardOf(n, A)
    /\ hInit = hBoard
    /\ hPrev = hBoard
    /\ hShift = <<0, 0>>
    /\ hShifted = <<>>
    /\ hSteps = 0
    /\ hNew = <<>>
    /\ hDone = {}
    /\ hCell = <<0, 0>> /\ hCount = -1 /\ hIdx = <<>>

SpecPattern == InitPattern /\ [][NextLife]_vars

(***************************************************************************)
(* SpecPass: one call of life followed cell by cell.  The source visits    *)
(* the cells row by row; here the next cell is any cell not yet visited,   *)
(* the source's order being one of the orders.                             *)
(***************************************************************************)
InitPass ==
    /\ MainIdle
    /\ \E n \in 1 .. MaxPassDim : hBoard \in Matrix(n)
    /\ hInit = hBoard
    /\ hPrev = hBoard
    /\ hShift = <<0, 0>>
    /\ hShifted = <<>>
    /\ hSteps = 0
    /\ hNew = hBoard            \* Matrix newBoard(board), line 123
    /\ hDone = {}
    /\ hCell = <<0, 0>> /\ hCount = -1 /\ hIdx = <<>>

\* a variant of EvalCell in which newBoard is another name of board
\* (Matrix& newBoard = board): the cell is written to both
EvalCellAliased ==
    /\ pc = "none"
    /\ hNew # <<>>
    /\ hSteps = 0
    /\ \E c \in Cells(hBoard) \ hDone :
          /\ hNew' = LifeCell(hBoard, hNew, c[1], c[2])
          /\ hBoard' = hNew'
          /\ hDone' = hDone \cup {c}
    /\ UNCHANGED <<mainVars, hInit, hPrev, hShift, hShifted, hSteps,
                   countVars>>

\* lines 128-146 for one cell
EvalCell ==
    /\ pc = "none"
    /\ hNew # <<>>
    /\ hSteps = 0
    /\ \E c \in Cells(hBoard) \ hDone :
          /\ hNew' = LifeCell(hBoard, hNew, c[1], c[2])
          /\ hDone' = hDone \cup {c}
    /\ UNCHANGED <<mainVars, hBoard, hInit, hPrev, hShift, hShifted, hSteps,
                   countVars>>

\* board = newBoard, line 151
AssignBoard ==
    /\ pc = "none"
    /\ hNew # <<>>
    /\ hSteps = 0
    /\ hDone = Cells(hBoard)
    /\ hPrev' = hBoard
    /\ hBoard' = hNew
    /\ hSteps' = 1
    /\ UNCHANGED <<mainVars, hInit, hShift, hShifted, hNew, hDone, countVars>>

NextPass == EvalCell \/ AssignBoard

SpecPass == InitPass /\ [][NextPass]_vars

(***************************************************************************)
(* SpecCount: countNbors called on a cell of a board, as life calls it     *)
(* (line 128), for every filling of the boards of size 1..MaxDim.          *)
(***************************************************************************)
InitCount ==
    /\ MainIdle
    /\ \E n \in 1 .. MaxDim : hBoard \in Matrix(n)
    /\ hInit = hBoard
    /\ hPrev = hBoard
    /\ hShift = <<0, 0>>
    /\ hShifted = <<>>
    /\ hSteps = 0
    /\ hNew = <<>>
    /\ hDone = {}
    /\ hCell = <<0, 0>> /\ hCount = -1 /\ hIdx = <<>>

\* auto count = countNbors(board, x, y) for a cell the loops of life visit
CallCount ==
    /\ pc = "none"
    /\ hCount = -1
    /\ \E c \in Cells(hBoard) :
          /\ hCell' = c
          /\ hIdx' = nborIdx(Size(hBoard), c[1], c[2])
          /\ hCount' = countNbors(hBoard, c[1], c[2])
    /\ UNCHANGED <<mainVars, hBoard, hInit, hPrev, hShift, hShifted, hSteps,
                   hNew, hDone>>

NextCount == CallCount

SpecCount == InitCount /\ [][NextCount]_vars

(***************************************************************************)
(* std::stoi on argv[1]: leading white space, an optional sign, then the   *)
(* longest run of decimal digits; what follows the digits is ignored; no   *)
(* digit at all throws std::invalid_argument.  (The arguments tried are    *)
(* too short to leave the range of int.)                                   *)
(***************************************************************************)
Digits == <<"0", "1", "2", "3", "4", "5", "6", "7", "8", "9">>

IsDigit(c) == \E i \in DOMAIN Digits : Digits[i] = c

DigitVal(c) == (CHOOSE i \in DOMAIN Digits : Digits[i] = c) - 1

RECURSIVE SkipSpace(_)
SkipSpace(s) ==
    IF s # <<>> /\ Head(s) = " " THEN SkipSpace(Tail(s)) ELSE s

\* the digits read so far: their number and their value
RECURSIVE DigitRun(_, _)
DigitRun(s, acc) ==
    IF s # <<>> /\ IsDigit(Head(s))
    THEN DigitRun(Tail(s), [n |-> acc.n + 1, val |-> acc.val * 10 + DigitVal(Head(s))])
    ELSE acc

stoi(s) ==
    LET t    == SkipSpace(s)
        sign == t # <<>> /\ Head(t) \in {"-", "+"}
        r    == DigitRun(IF sign THEN Tail(t) ELSE t, [n |-> 0, val |-> 0])
    IN  IF r.n = 0
        THEN [ok |-> FALSE, value |-> 0]
        ELSE [ok |-> TRUE,
              value |-> IF sign /\ Head(t) = "-" THEN -r.val ELSE r.val]

(***************************************************************************)
(* checkArgs (lines 74-88)                                                 *)
(***************************************************************************)
checkArgs(ac, av1) ==
    IF ac # 2
    THEN [thrown |-> FALSE, valid |-> FALSE, out |-> "usage"]
    ELSE LET r == stoi(av1)
         IN  IF ~r.ok
             THEN [thrown |-> TRUE, valid |-> FALSE, out |-> "none"]
             ELSE IF r.value < 0 \/ r.value > 40
                  THEN [thrown |-> FALSE, valid |-> FALSE, out |-> "range"]
                  ELSE [thrown |-> FALSE, valid |-> TRUE, out |-> "none"]

(***************************************************************************)
(* Spec: main (lines 26-56) with its two threads                           *)
(***************************************************************************)
\* the decimal numeral of n, 0 <= n < 100
Dec(n) ==
    IF n < 10
    THEN <<Digits[n + 1]>>
    ELSE <<Digits[(n \div 10) + 1], Digits[(n % 10) + 1]>>

\* the values of argv[1] tried: the dimensions that are run, and arguments
\* that are negative, too large, not a number, empty, or a number followed
\* by a letter
ArgStrings ==
    { Dec(n) : n \in 0 .. MaxRunDim }
        \cup { <<"-", "1">>, Dec(41), <<"a", "b", "c">>, <<>>, <<"1", "x">> }

Keys == { "q", "x" }

Init ==
    /\ CallIdle
    /\ \/ argc = 1 /\ argv1 = <<>>
       \/ argc \in {2, 3} /\ argv1 \in ArgStrings
    /\ pc = "checkArgs"
    /\ exitStatus = "EXIT_SUCCESS"
    /\ out = "none"
    /\ dim = 0
    /\ board = <<>>
    /\ kbd = <<>>
    /\ key = "none"
    /\ term = "shell"
    /\ endwins = 0
    /\ frame = <<>>
    /\ t1 = NoThread
    /\ t2 = NoLife
    /\ G0 = <<>>
    /\ primed = <<>>
    /\ cycles = 0

\* a variant of CheckArgs whose result main does not test: the message is
\* written and the board is constructed all the same
CheckArgsIgnored ==
    /\ pc = "checkArgs"
    /\ LET r == checkArgs(argc, argv1)
       IN  /\ out' = r.out
           /\ pc' = IF r.thrown THEN "thrown" ELSE "construct"
    /\ UNCHANGED <<argc, argv1, exitStatus, dim, board, kbd, key, term,
                   endwins, frame, t1, t2, G0, primed, cycles, callVars>>

\* line 29: the call of checkArgs; an exception of stoi leaves checkArgs
\* and main, no handler being there
CheckArgs ==
    /\ pc = "checkArgs"
    /\ LET r == checkArgs(argc, argv1)
       IN  /\ out' = r.out
           /\ pc' = IF r.thrown THEN "thrown"
                    ELSE IF r.valid THEN "construct" ELSE "fail"
    /\ UNCHANGED <<argc, argv1, exitStatus, dim, board, kbd, key, term,
                   endwins, frame, t1, t2, G0, primed, cycles, callVars>>

\* the exception left main: std::terminate ends the process (abort)
Terminate ==
    /\ pc = "thrown"
    /\ pc' = "aborted"
    /\ UNCHANGED <<argc, argv1, exitStatus, out, dim, board, kbd, key, term,
                   endwins, frame, t1, t2, G0, primed, cycles, callVars>>

\* a variant of Construct whose rows are one cell short
ConstructShortRows ==
    /\ pc = "construct"
    /\ dim' = stoi(argv1).value
    /\ board' = [y \in Idx(dim') |-> [x \in Idx(dim' - 1) |-> FALSE]]
    /\ pc' = "initialize"
    /\ UNCHANGED <<argc, argv1, exitStatus, out, kbd, key, term, endwins,
                   frame, t1, t2, G0, primed, cycles, callVars>>

\* lines 30-31
Construct ==
    /\ pc = "construct"
    /\ dim' = stoi(argv1).value
    /\ board' = AllFalse(dim')
    /\ pc' = "initialize"
    /\ UNCHANGED <<argc, argv1, exitStatus, out, kbd, key, term, endwins,
                   frame, t1, t2, G0, primed, cycles, callVars>>

\* line 34, initialize (lines 59-67): initscr ... timeout(0), srand
Initialize ==
    /\ pc = "initialize"
    /\ term' = "curses"
    /\ pc' = "randBoard"
    /\ UNCHANGED <<argc, argv1, exitStatus, out, dim, board, kbd, key,
                   endwins, frame, t1, t2, G0, primed, cycles, callVars>>

\* line 35, randBoard (lines 183-189): every cell is rand() % 2
RandBoard ==
    /\ pc = "randBoard"
    /\ board' \in Matrix(Size(board))
    /\ G0' = board'
    /\ primed' = board'
    /\ pc' = "getch"
    /\ UNCHANGED <<argc, argv1, exitStatus, out, dim, kbd, key, term,
                   endwins, frame, t1, t2, cycles, callVars>>

\* the pending keys other than 'q'
NonQ(q) == Cardinality({ i \in DOMAIN q : q[i] # "q" })

\* the user presses a key while the program is in curses mode; a key other
\* than 'q' is pressed only while a loop body is left to read it in
Type ==
    /\ term = "curses"
    /\ Len(kbd) < MaxKbd
    /\ \E k \in Keys :
          /\ k # "q" => cycles + NonQ(kbd) < MaxCycles
          /\ kbd' = Append(kbd, k)
    /\ UNCHANGED <<argc, argv1, pc, exitStatus, out, dim, board, key, term,
                   endwins, frame, t1, t2, G0, primed, cycles, callVars>>

\* a variant of Getch that leaves the loop on any key
GetchAnyKey ==
    /\ pc = "getch"
    /\ key' = IF kbd = <<>> THEN "ERR" ELSE Head(kbd)
    /\ kbd' = IF kbd = <<>> THEN kbd ELSE Tail(kbd)
    /\ key' = "ERR" => cycles < MaxCycles
    /\ pc' = IF key' # "ERR" THEN "endwin" ELSE "move"
    /\ cycles' = IF key' # "ERR" THEN cycles ELSE cycles + 1
    /\ UNCHANGED <<argc, argv1, exitStatus, out, dim, board, term, endwins,
                   frame, t1, t2, G0, primed, callVars>>

\* line 41: while (getch() != 'q'); getch does not wait (timeout(0)) and
\* gives ERR when no key is pending
Getch ==
    /\ pc = "getch"
    /\ key' = IF kbd = <<>> THEN "ERR" ELSE Head(kbd)
    /\ kbd' = IF kbd = <<>> THEN kbd ELSE Tail(kbd)
    /\ key' # "q" => cycles < MaxCycles
    /\ pc' = IF key' = "q" THEN "endwin" ELSE "move"
    /\ cycles' = IF key' = "q" THEN cycles ELSE cycles + 1
    /\ UNCHANGED <<argc, argv1, exitStatus, out, dim, board, term, endwins,
                   frame, t1, t2, G0, primed, callVars>>

\* line 42: move(0, 0)
Move ==
    /\ pc = "move"
    /\ frame' = <<>>
    /\ pc' = "life"
    /\ UNCHANGED <<argc, argv1, exitStatus, out, dim, board, kbd, key, term,
                   endwins, t1, t2, G0, primed, cycles, callVars>>

\* a variant of Prime that leaves the board as it is
PrimeSkipped ==
    /\ pc = "life"
    /\ board' = board
    /\ primed' = board'
    /\ pc' = "spawn_t1"
    /\ UNCHANGED <<argc, argv1, exitStatus, out, dim, kbd, key, term,
                   endwins, frame, t1, t2, G0, cycles, callVars>>

\* line 43: life(board), called by main itself
Prime ==
    /\ pc = "life"
    /\ board' = life(board)
    /\ primed' = board'
    /\ pc' = "spawn_t1"
    /\ UNCHANGED <<argc, argv1, exitStatus, out, dim, kbd, key, term,
                   endwins, frame, t1, t2, G0, cycles, callVars>>

\* line 44: thread t1(print, board); the constructor copies board in main's
\* thread, and print takes its parameter by value
SpawnT1 ==
    /\ pc = "spawn_t1"
    /\ t1' = [pc |-> "run", board |-> board, pos |-> 0]
    /\ pc' = "spawn_t2"
    /\ UNCHANGED <<argc, argv1, exitStatus, out, dim, board, kbd, key, term,
                   endwins, frame, t2, G0, primed, cycles, callVars>>

\* line 45: thread t2(life, ref(board))
SpawnT2 ==
    /\ pc = "spawn_t2"
    /\ t2' = [pc |-> "run", newBoard |-> <<>>]
    /\ pc' = "join_t1"
    /\ UNCHANGED <<argc, argv1, exitStatus, out, dim, board, kbd, key, term,
                   endwins, frame, t1, G0, primed, cycles, callVars>>

\* a variant of T1Cell that reads main's board instead of the thread's copy
T1CellShared ==
    /\ t1.pc = "run"
    /\ t1.pos < Size(t1.board) * Size(t1.board)
    /\ LET n == Size(t1.board)
       IN  frame' = Append(frame, board[t1.pos \div n][t1.pos % n])
    /\ t1' = [t1 EXCEPT !.pos = @ + 1]
    /\ UNCHANGED <<argc, argv1, pc, exitStatus, out, dim, board, kbd, key,
                   term, endwins, t2, G0, primed, cycles, callVars>>

\* a variant of T1Cell that draws no further cell once a 'q' is pending
T1CellUntilQ ==
    /\ t1.pc = "run"
    /\ t1.pos < Size(t1.board) * Size(t1.board)
    /\ \A i \in DOMAIN kbd : kbd[i] # "q"
    /\ LET n == Size(t1.board)
       IN  frame' = Append(frame, t1.board[t1.pos \div n][t1.pos % n])
    /\ t1' = [t1 EXCEPT !.pos = @ + 1]
    /\ UNCHANGED <<argc, argv1, pc, exitStatus, out, dim, board, kbd, key,
                   term, endwins, t2, G0, primed, cycles, callVars>>

\* print, lines 96-110: one cell drawn and refreshed (with the newline that
\* ends its row), cells taken row by row
T1Cell ==
    /\ t1.pc = "run"
    /\ t1.pos < Size(t1.board) * Size(t1.board)
    /\ LET n == Size(t1.board)
       IN  frame' = Append(frame, t1.board[t1.pos \div n][t1.pos % n])
    /\ t1' = [t1 EXCEPT !.pos = @ + 1]
    /\ UNCHANGED <<argc, argv1, pc, exitStatus, out, dim, board, kbd, key,
                   term, endwins, t2, G0, primed, cycles, callVars>>

\* print, lines 112-115: the prompt, the refresh and the sleep of 500 ms
T1Prompt ==
    /\ t1.pc = "run"
    /\ t1.pos = Size(t1.board) * Size(t1.board)
    /\ t1' = [t1 EXCEPT !.pc = "done"]
    /\ UNCHANGED <<argc, argv1, pc, exitStatus, out, dim, board, kbd, key,
                   term, endwins, frame, t2, G0, primed, cycles, callVars>>

\* life in t2, lines 123-148: newBoard is computed from main's board
T2Pass ==
    /\ t2.pc = "run"
    /\ t2' = [pc |-> "assign", newBoard |-> lifeLoop(board, board, 0)]
    /\ UNCHANGED <<argc, argv1, pc, exitStatus, out, dim, board, kbd, key,
                   term, endwins, frame, t1, G0, primed, cycles, callVars>>

\* life in t2, line 151: board = newBoard, through the reference
T2Assign ==
    /\ t2.pc = "assign"
    /\ board' = t2.newBoard
    /\ t2' = [pc |-> "done", newBoard |-> <<>>]
    /\ UNCHANGED <<argc, argv1, pc, exitStatus, out, dim, kbd, key, term,
                   endwins, frame, t1, G0, primed, cycles, callVars>>

\* a variant of JoinT1 that goes on without waiting for the render thread
JoinT1NoWait ==
    /\ pc = "join_t1"
    /\ pc' = "join_t2"
    /\ UNCHANGED <<argc, argv1, exitStatus, out, dim, board, kbd, key, term,
                   endwins, frame, t1, t2, G0, primed, cycles, callVars>>

\* line 46: t1.join()
JoinT1 ==
    /\ pc = "join_t1"
    /\ t1.pc = "done"
    /\ t1' = NoThread
    /\ pc' = "join_t2"
    /\ UNCHANGED <<argc, argv1, exitStatus, out, dim, board, kbd, key, term,
                   endwins, frame, t2, G0, primed, cycles, callVars>>

\* a variant of JoinT2 that goes back to the loop test without waiting for
\* the thread (a detach in place of the join)
JoinT2NoWait ==
    /\ pc = "join_t2"
    /\ pc' = "getch"
    /\ UNCHANGED <<argc, argv1, exitStatus, out, dim, board, kbd, key, term,
                   endwins, frame, t1, t2, G0, primed, cycles, callVars>>

\* line 47: t2.join(), then back to the loop test
JoinT2 ==
    /\ pc = "join_t2"
    /\ t2.pc = "done"
    /\ t2' = NoLife
    /\ pc' = "getch"
    /\ UNCHANGED <<argc, argv1, exitStatus, out, dim, board, kbd, key, term,
                   endwins, frame, t1, G0, primed, cycles, callVars>>

\* line 50: endwin()
Endwin ==
    /\ pc = "endwin"
    /\ term' = "restored"
    /\ endwins' = endwins + 1
    /\ pc' = "return"
    /\ UNCHANGED <<argc, argv1, exitStatus, out, dim, board, kbd, key,
                   frame, t1, t2, G0, primed, cycles, callVars>>

\* line 52: exitStatus = EXIT_FAILURE
Fail ==
    /\ pc = "fail"
    /\ exitStatus' = "EXIT_FAILURE"
    /\ pc' = "return"
    /\ UNCHANGED <<argc, argv1, out, dim, board, kbd, key, term, endwins,
                   frame, t1, t2, G0, primed, cycles, callVars>>

\* line 55: return exitStatus
Return ==
    /\ pc = "return"
    /\ pc' = "exited"
    /\ UNCHANGED <<argc, argv1, exitStatus, out, dim, board, kbd, key, term,
                   endwins, frame, t1, t2, G0, primed, cycles, callVars>>

Next ==
    \/ CheckArgs \/ Terminate \/ Construct \/ Initialize \/ RandBoard
    \/ Type \/ Getch \/ Move \/ Prime \/ SpawnT1 \/ SpawnT2
    \/ T1Cell \/ T1Prompt \/ T2Pass \/ T2Assign
    \/ JoinT1 \/ JoinT2 \/ Endwin \/ Fail \/ Return

Spec == Init /\ [][Next]_vars

(***************************************************************************)
(* SpecQuit: main given a dimension of at most MaxQuitDim, each of the     *)
(* three threads scheduled fairly: a thread that can take a step does      *)
(* take one.  Nothing is assumed of the user: no key need ever be typed.   *)
(***************************************************************************)
MainStep ==
    \/ CheckArgs \/ Terminate \/ Construct \/ Initialize \/ RandBoard
    \/ Getch \/ Move \/ Prime \/ SpawnT1 \/ SpawnT2 \/ JoinT1 \/ JoinT2
    \/ Endwin \/ Fail \/ Return

T1Step == T1Cell \/ T1Prompt

T2Step == T2Pass \/ T2Assign

InitQuit ==
    /\ Init
    /\ checkArgs(argc, argv1).valid => stoi(argv1).value <= MaxQuitDim

SpecQuit ==
    /\ InitQuit /\ [][Next]_vars
    /\ WF_vars(MainStep) /\ WF_vars(T1Step) /\ WF_vars(T2Step)

(***************************************************************************)
(* SpecIndex: countNbors called on the cells life visits, for a board of   *)
(* every dimension 0..MaxArgDim that checkArgs accepts.  The indexes do    *)
(* not depend on the cells' values: the board is all dead or all alive.    *)
(***************************************************************************)
AllTrue(n) == [y \in Idx(n) |-> [x \in Idx(n) |-> TRUE]]

AcceptedDims == { d \in 0 .. MaxArgDim : checkArgs(2, Dec(d)).valid }

InitIndex ==
    /\ MainIdle
    /\ \E n \in AcceptedDims : hBoard \in {AllFalse(n), AllTrue(n)}
    /\ hInit = hBoard
    /\ hPrev = hBoard
    /\ hShift = <<0, 0>>
    /\ hShifted = <<>>
    /\ hSteps = 0
    /\ hNew = <<>>
    /\ hDone = {}
    /\ hCell = <<0, 0>> /\ hCount = -1 /\ hIdx = <<>>

SpecIndex == InitIndex /\ [][NextCount]_vars

(***************************************************************************)
(* Properties of the generation step                                       *)
(***************************************************************************)
\* C1 (as claimed): a cell alive before a life call is alive after it iff 2
\* or 3 of its 8 adjacent cells were alive.
C1_SurvivalRule ==
    (hSteps > 0 /\ Size(hPrev) >= 3) =>
        \A c \in Cells(hPrev) :
            hPrev[c[2]][c[1]] =>
                (hBoard[c[2]][c[1]] <=> AliveAdjacent(hPrev, c[1], c[2]) \in {2, 3})

\* C2: a cell dead before a life call is alive after it iff exactly 3 of its
\* 8 adjacent cells were alive.
C2_BirthRule ==
    (hSteps > 0 /\ Size(hPrev) >= 3) =>
        \A c \in Cells(hPrev) :
            ~hPrev[c[2]][c[1]] =>
                (hBoard[c[2]][c[1]] <=> AliveAdjacent(hPrev, c[1], c[2]) = 3)

\* C2 witness: a call on a board of size 3 brought to life a dead cell that
\* had exactly 3 alive adjacent cells, one of them across the border.
C2_Witness ==
    /\ hSteps > 0
    /\ Size(hPrev) = 3
    /\ ~hPrev[0][0] /\ hBoard[0][0]
    /\ AliveAdjacent(hPrev, 0, 0) = 3
    /\ hPrev[2][2]

\* C7: the generation step commutes with every cyclic shift: the shifted
\* board, stepped alongside, is the shift of the stepped board.
C7_ShiftCommutes ==
    (hShifted # <<>> /\ Size(hBoard) >= 3) =>
        hShifted = shift(hBoard, hShift[1], hShift[2])

\* C7 witness: after a call that changed a board of size 4, under a shift
\* that carried an alive cell across the border.
C7_Witness ==
    /\ hShifted # <<>>
    /\ hSteps > 0
    /\ Size(hBoard) = 4
    /\ hShift = <<1, 1>>
    /\ hBoard # hPrev
    /\ hShifted # hBoard
    /\ \E c \in Alive(hInit) : c[1] = 3 \/ c[2] = 3
    /\ Alive(hBoard) # {}

\* the alive cells are exactly a 2x2 block, at any position of the torus
IsBlock(b) ==
    LET n == Size(b)
    IN  \E x, y \in Idx(n) :
            Alive(b) = { <<x, y>>, <<(x + 1) % n, y>>,
                         <<x, (y + 1) % n>>, <<(x + 1) % n, (y + 1) % n>> }

\* C8 (as claimed): a board of size 4 or more whose alive cells are exactly
\* a 2x2 block is unchanged by a life call.
C8_BlockStillLife ==
    (hSteps > 0 /\ Size(hPrev) >= 4 /\ IsBlock(hPrev)) => hBoard = hPrev

BlinkerRow == BoardOf(5, { <<1, 2>>, <<2, 2>>, <<3, 2>> })
BlinkerCol == BoardOf(5, { <<2, 1>>, <<2, 2>>, <<2, 3>> })

\* C9 (as claimed): the 5x5 board holding row 2, columns 1..3 becomes column
\* 2, rows 1..3 after one life call and is back after a second one.
C9_Blinker ==
    hInit = BlinkerRow =>
        /\ hSteps = 1 => hBoard = BlinkerCol
        /\ hSteps = 2 => hBoard = BlinkerRow

\* C10: in a pass of life taken in any order of the cells, the board read
\* stays the board handed in, each cell evaluated holds the value the rule
\* gives on the board handed in, each cell not yet evaluated holds its old
\* value, and the board assigned at the end is the one life computes row by
\* row.
C10_OrderIndependent ==
    hNew # <<>> =>
        LET next == life(hInit)
        IN  /\ hSteps = 0 =>
                  /\ hBoard = hInit
                  /\ \A c \in Cells(hInit) :
                        hNew[c[2]][c[1]] =
                            IF c \in hDone THEN next[c[2]][c[1]] ELSE hInit[c[2]][c[1]]
            /\ hSteps = 1 => hBoard = next

\* C10 witness: a pass on a board of size 2 that evaluated the last cell of
\* the source's order before any other and changed it.
C10_Witness ==
    /\ hNew # <<>>
    /\ hSteps = 0
    /\ Size(hInit) = 2
    /\ hDone = { <<1, 1>> }
    /\ hNew[1][1] # hInit[1][1]

(***************************************************************************)
(* Properties of main                                                      *)
(***************************************************************************)
\* the invocations the claim C3 calls valid: one argument, an integer N with
\* 0 < N <= 40
ClaimedValid ==
    /\ argc = 2
    /\ stoi(argv1).ok
    /\ stoi(argv1).value > 0
    /\ stoi(argv1).value <= 40

\* C3 (as claimed): exactly the invocations with one argument N, 0 < N <= 40,
\* are accepted and exit with success; every other invocation takes the
\* usage-error path (a message, then exit with failure).
C3_AcceptsExactly1To40 ==
    /\ pc \in {"construct", "initialize", "randBoard", "getch", "endwin"}
          => ClaimedValid
    /\ pc = "exited" => (exitStatus = "EXIT_SUCCESS" <=> ClaimedValid)
    /\ pc \in {"fail", "aborted"}
          => (~ClaimedValid /\ pc = "fail" /\ out \in {"usage", "range"})

\* main has left the loop on 'q'
Stopped == key = "q" /\ pc \in {"endwin", "return", "exited"}

CyclePcs == {"move", "life", "spawn_t1", "spawn_t2", "join_t1", "join_t2"}

\* a step of the loop test reads the key at the head of the input, if any,
\* and leaves the loop on 'q' only
PollsOneKey ==
    (pc = "getch" /\ pc' # "getch") =>
        /\ key' = (IF kbd = <<>> THEN "ERR" ELSE Head(kbd))
        /\ Len(kbd') >= Len(kbd) - 1
        /\ IF key' = "q"
           THEN pc' = "endwin" /\ cycles' = cycles
           ELSE pc' = "move" /\ cycles' = cycles + 1

\* once stopped, main stays stopped; no thread exists and neither the board
\* nor the frame changes
StaysStopped ==
    Stopped =>
        /\ Stopped'
        /\ t1 = NoThread /\ t2 = NoLife
        /\ UNCHANGED <<board, frame, t1, t2, cycles>>

\* a loop body is left only back to the loop test
FullCycle == pc \in CyclePcs => pc' \in CyclePcs \cup {"getch"}

EndwinOnce ==
    /\ endwins <= 1
    /\ ~Stopped => endwins = 0
    /\ (Stopped /\ pc # "endwin") => endwins = 1

\* C4: each test of the loop reads one key; on 'q' main is stopped, and from
\* then on no board is computed, no cell drawn and no thread started, and
\* endwin is called exactly once; on any other key or no key main enters the
\* loop body, which it leaves only back to the loop test.
C4_QuitHandling ==
    /\ []EndwinOnce
    /\ [][PollsOneKey]_vars
    /\ [][StaysStopped]_vars
    /\ [][FullCycle]_vars

\* C4 witness: main has returned after 'q', having run a loop body on
\* another key or on no key, endwin called once.
C4_Witness ==
    /\ pc = "exited"
    /\ key = "q"
    /\ cycles >= 1
    /\ endwins = 1
    /\ board # G0

\* the cells of a board in the order print draws them
Flat(b) ==
    LET n == Size(b)
    IN  [i \in 1 .. n * n |-> b[(i - 1) \div n][(i - 1) % n]]

\* C5: in the k-th loop body the board handed to print, and the frame print
\* draws, is generation 2k-1 of the board randBoard made, and at each loop
\* test after k loop bodies main's board is generation 2k.
C5_TwoGenerationsPerCycle ==
    /\ t1.pc # "none" =>
          /\ t1.board = lifeN(G0, 2 * cycles - 1)
          /\ frame = SubSeq(Flat(t1.board), 1, t1.pos)
    /\ pc = "getch" => board = lifeN(G0, 2 * cycles)

\* C5 witness: a frame is drawn in full and differs from the generation
\* before it and from the generation after it, which main's board now holds.
C5_Witness ==
    /\ cycles >= 1
    /\ t1.pc = "done"
    /\ t2.pc = "done"
    /\ frame = Flat(lifeN(G0, 2 * cycles - 1))
    /\ lifeN(G0, 2 * cycles - 1) # lifeN(G0, 2 * cycles - 2)
    /\ lifeN(G0, 2 * cycles - 1) # lifeN(G0, 2 * cycles)
    /\ board = lifeN(G0, 2 * cycles)

\* C6: whatever t2 has done so far, every cell drawn since the cursor was
\* reset is the cell of the board as it was after the synchronous life call,
\* and that board is the copy print works on.
C6_SnapshotIsolation ==
    /\ t1.pc # "none" => t1.board = primed
    /\ \A i \in 1 .. Len(frame) :
          frame[i] = primed[(i - 1) \div Size(primed)][(i - 1) % Size(primed)]

\* C6 witness: t2 has assigned main's board, which now differs from the
\* copy, while print has drawn some cells and has more to draw.
C6_Witness ==
    /\ t2.pc = "done"
    /\ t1.pc = "run"
    /\ t1.pos > 0
    /\ t1.pos < Size(t1.board) * Size(t1.board)
    /\ \E i \in (t1.pos + 1) .. Len(Flat(board)) :
          Flat(board)[i] # Flat(t1.board)[i]

(***************************************************************************)
(* C11  Barrier                                                            *)
(***************************************************************************)
\* the statement main executes after each statement of the loop body
AfterInCycle ==
    [p \in CyclePcs |->
        CASE p = "move"     -> "life"
          [] p = "life"     -> "spawn_t1"
          [] p = "spawn_t1" -> "spawn_t2"
          [] p = "spawn_t2" -> "join_t1"
          [] p = "join_t1"  -> "join_t2"
          [] p = "join_t2"  -> "getch"]

\* a thread exists only between its spawn and its join
TasksInsideBarrier ==
    /\ t1.pc # "none" => pc \in {"spawn_t2", "join_t1"}
    /\ t2.pc # "none" => pc \in {"join_t1", "join_t2"}

\* one step of the program seen from the barrier
BarrierStep ==
    \* the body runs its statements in order, each once
    /\ (pc \in CyclePcs /\ pc' # pc) => pc' = AfterInCycle[pc]
    \* the render thread starts at line 44 only, the compute thread at line 45
    /\ (t1.pc = "none" /\ t1'.pc # "none") => (pc = "spawn_t1" /\ t1'.pc = "run")
    /\ (t2.pc = "none" /\ t2'.pc # "none") => (pc = "spawn_t2" /\ t2'.pc = "run")
    /\ (pc = "spawn_t1" /\ pc' # pc) => (t1.pc = "none" /\ t1'.pc = "run")
    /\ (pc = "spawn_t2" /\ pc' # pc) => (t2.pc = "none" /\ t2'.pc = "run")
    \* main passes a join only when the thread it names has finished
    /\ (pc = "join_t1" /\ pc' # pc) => (t1.pc = "done" /\ t1' = NoThread)
    /\ (pc = "join_t2" /\ pc' # pc) => (t2.pc = "done" /\ t2' = NoLife)

\* C11: every loop body starts exactly one render thread and one compute
\* thread; while either of them exists main is at line 45, 46 or 47, so it
\* does not poll the keyboard, reset the cursor, run the priming step, start
\* another thread or leave the loop until both have finished and are joined.
C11_Barrier == []TasksInsideBarrier /\ [][BarrierStep]_vars

\* main waits at t2.join() in the second loop body: the render thread is
\* joined, the compute thread has not yet assigned its result
C11_Witness ==
    /\ pc = "join_t2"
    /\ cycles = 2
    /\ t1 = NoThread
    /\ t2.pc \in {"run", "assign"}

(***************************************************************************)
(* C12  Neighbour count                                                    *)
(***************************************************************************)
\* C12: countNbors(B, x, y) is the number of offset pairs of {-1, 0, 1}^2
\* other than (0, 0) whose wrapped cell is alive, counted with multiplicity,
\* on every board of size 1 or more; the offset (0, 0) is never counted.
C12_CountsAdjacentOnly ==
    hCount # -1 => hCount = AliveAdjacent(hBoard, hCell[1], hCell[2])

(***************************************************************************)
(* C13  No state on usage error                                            *)
(***************************************************************************)
\* checkArgs has been called and did not return true
ValidationFailed == pc # "checkArgs" /\ ~checkArgs(argc, argv1).valid

\* C13: a run whose argument validation fails goes from checkArgs to the
\* failure exit (or, stoi having thrown, to the abort) and to nothing else:
\* no board is constructed, curses is never entered, no loop body runs, no
\* thread is started, endwin is never called, and main returns EXIT_FAILURE.
C13_NoStateOnUsageError ==
    ValidationFailed =>
        /\ pc \in {"fail", "return", "exited", "thrown", "aborted"}
        /\ dim = 0 /\ board = <<>> /\ G0 = <<>> /\ primed = <<>>
        /\ term = "shell" /\ endwins = 0
        /\ cycles = 0 /\ key = "none" /\ frame = <<>>
        /\ t1 = NoThread /\ t2 = NoLife
        /\ pc \in {"return", "exited"} => exitStatus = "EXIT_FAILURE"

\* the run given the dimension 41 has ended with EXIT_FAILURE
C13_Witness ==
    /\ argc = 2 /\ argv1 = Dec(41)
    /\ out = "range"
    /\ pc = "exited"
    /\ exitStatus = "EXIT_FAILURE"

(***************************************************************************)
(* C14  Quit liveness without cancellation                                 *)
(***************************************************************************)
\* a 'q' has been typed and not yet read
QEntered == \E i \in DOMAIN kbd : kbd[i] = "q"

\* one step of the program seen from its two threads: a thread goes from
\* its start to its end and is then joined, whatever is typed meanwhile
NoCancel ==
    \* the render thread draws on, cell after cell, and ends after the prompt
    /\ t1.pc = "run" =>
          /\ t1'.pc \in {"run", "done"}
          /\ t1'.board = t1.board
          /\ t1'.pos >= t1.pos
          /\ t1'.pc = "done" => t1.pos = dim * dim /\ Len(frame) = dim * dim
    /\ (t1.pc = "done" /\ t1' # t1) => (t1' = NoThread /\ pc = "join_t1")
    \* the compute thread makes its pass and assigns the result to board
    /\ t2.pc = "run" => t2'.pc \in {"run", "assign"}
    /\ t2.pc = "assign" =>
          /\ t2'.pc \in {"assign", "done"}
          /\ t2'.pc = "done" => board' = t2.newBoard
    /\ (t2.pc = "done" /\ t2' # t2) =>
          /\ t2' = NoLife /\ pc = "join_t2"
          /\ board = life(primed) /\ board' = board
    \* typing a key moves no thread
    /\ kbd' = Append(kbd, "q") => UNCHANGED <<pc, t1, t2, board, frame, key>>

\* C14: a thread started in a loop body runs to its end, a 'q' typed while
\* it runs changing nothing of it, and the board the compute thread made is
\* the board main goes on with; with main and the two threads scheduled
\* fairly, a started thread ends and a typed 'q' is followed by main having
\* left the loop.
C14_QuitLiveness ==
    /\ [][NoCancel]_vars
    /\ (t1.pc = "run") ~> (t1.pc = "done")
    /\ (t2.pc \in {"run", "assign"}) ~> (t2.pc = "done")
    /\ QEntered ~> Stopped

\* a 'q' is pending while both threads of the second loop body still run
C14_Witness ==
    /\ QEntered
    /\ cycles = 2
    /\ pc = "join_t1"
    /\ t1.pc = "run" /\ t1.pos = 1
    /\ t2.pc = "assign"

(***************************************************************************)
(* C15  Board shape invariant                                              *)
(***************************************************************************)
\* b has exactly n rows of exactly n cells
IsSquare(b, n) ==
    /\ DOMAIN b = Idx(n)
    /\ \A y \in Idx(n) : DOMAIN b[y] = Idx(n) /\ \A x \in Idx(n) : b[y][x] \in BOOLEAN

\* C15: from the construction on, dim is the dimension given in argv[1] and
\* every board there is has dim rows of dim cells: main's board (after the
\* construction, after randBoard, after the priming call, while and after
\* the compute thread works), the copy the render thread draws, and the new
\* board the compute thread is about to assign.
C15_BoardShape ==
    (checkArgs(argc, argv1).valid /\ pc \notin {"checkArgs", "construct"}) =>
        /\ dim = stoi(argv1).value
        /\ IsSquare(board, dim)
        /\ pc \notin {"initialize", "randBoard"} =>
              IsSquare(G0, dim) /\ IsSquare(primed, dim)
        /\ t1.pc # "none" => IsSquare(t1.board, dim)
        /\ t2.pc = "assign" => IsSquare(t2.newBoard, dim)

\* on a 3 x 3 board the render thread draws its copy while the compute
\* thread holds a new board that differs from main's
C15_Witness ==
    /\ dim = 3
    /\ t1.pc = "run" /\ t1.pos = 4
    /\ t2.pc = "assign"
    /\ t2.newBoard # board

(***************************************************************************)
(* C16  Purity of the generation step                                      *)
(***************************************************************************)
\* C16 as stated: life never changes the board it is given, which holds
\* the same cells after the call as before it.
C16_InputNeverMutated == hNew # <<>> => hBoard = hInit

\* one step of a call of life seen from the board it was given
MutatedOnlyByAssignment ==
    \* the pass writes to newBoard and leaves board alone
    /\ hNew' # hNew => (hBoard' = hBoard /\ hSteps = 0 /\ hSteps' = 0)
    \* board changes at line 151 only, the pass over, and becomes newBoard
    /\ hBoard' # hBoard =>
          /\ hDone = Cells(hBoard)
          /\ hSteps = 0 /\ hSteps' = 1
          /\ hBoard' = hNew /\ hNew' = hNew

\* C16 as amended: during the pass life leaves the board it is given
\* untouched and builds the next generation in newBoard, a separate board
\* of the same size; the last statement of life then assigns newBoard to
\* the board it was given, which the call so changes in place.
C16_MutatedOnlyByAssignment ==
    /\ [](hNew # <<>> => IsSquare(hNew, Size(hInit)))
    /\ [][MutatedOnlyByAssignment]_vars

\* the call is over and the board given holds other cells than before
C16_Witness ==
    /\ hSteps = 1
    /\ hBoard # hInit
    /\ hBoard = hNew
    /\ Size(hBoard) = 2

(***************************************************************************)
(* C17  Terminal access discipline                                         *)
(***************************************************************************)
\* main's next statement calls curses: initialize, getch, move, endwin
MainAtTerminal == pc \in {"initialize", "getch", "move", "endwin"}

\* the render thread has calls of addstr and refresh ahead of it
T1AtTerminal == t1.pc = "run"

\* one step of the program seen from the terminal and the keyboard
TerminalStep ==
    \* the screen is written by move in main or by the render thread, never
    \* while the other is at the terminal
    /\ frame' # frame =>
          \/ pc = "move" /\ ~T1AtTerminal
          \/ T1AtTerminal /\ ~MainAtTerminal /\ pc' = pc
    \* a key is read by getch in main only
    /\ (key' # key \/ Len(kbd') < Len(kbd)) => (pc = "getch" /\ ~T1AtTerminal)
    \* curses is entered and left by main only
    /\ (term' # term \/ endwins' # endwins) =>
          (pc \in {"initialize", "endwin"} /\ ~T1AtTerminal)
    \* a step of the compute thread leaves terminal and keyboard alone
    /\ (t2.pc \in {"run", "assign"} /\ t2' # t2) =>
          UNCHANGED <<term, endwins, frame, kbd, key>>

\* C17: main is never about to call getch, move, endwin or initialize while
\* the render thread is drawing; screen, keyboard and curses mode change in
\* the steps of their one user only, and never in a step of the compute
\* thread.
C17_TerminalDiscipline ==
    /\ [](~(MainAtTerminal /\ T1AtTerminal))
    /\ [][TerminalStep]_vars

\* the render thread is in the middle of a frame with a key pending, main
\* waiting at t1.join() and the compute thread at work
C17_Witness ==
    /\ pc = "join_t1"
    /\ t1.pc = "run" /\ t1.pos = 2 /\ Len(frame) = 2
    /\ t2.pc = "run"
    /\ kbd # <<>>

(***************************************************************************)
(* C18  Index safety                                                       *)
(***************************************************************************)
\* C18: on a board of any dimension checkArgs accepts, for any cell life
\* visits, every y_p and x_p countNbors computes is the index of a row and
\* of a cell, namely (y + i) mod dim and (x + j) mod dim: a negative
\* remainder r comes out of the int / size_t arithmetic as r + dim.
\* countNbors, and with it the remainder, is evaluated on a board of
\* dimension 1 or more only.
C18_IndexSafety ==
    hCount # -1 =>
        LET n == Size(hBoard)
        IN  /\ n >= 1
            /\ n \in AcceptedDims
            /\ \A o \in Offsets :
                  /\ hIdx[o][1] \in Idx(n) /\ hIdx[o][2] \in Idx(n)
                  /\ hIdx[o][1] = (hCell[2] + o[1]) % n
                  /\ hIdx[o][2] = (hCell[1] + o[2]) % n
                  /\ CRem(hCell[1] + o[2], n) < 0 =>
                        hIdx[o][2] = CRem(hCell[1] + o[2], n) + n
                  /\ CRem(hCell[2] + o[1], n) < 0 =>
                        hIdx[o][1] = CRem(hCell[2] + o[1], n) + n

\* on the 40 x 40 board, the cell of column 0 in the last row: the column
\* to its left has the remainder -1 and the row below the remainder 0
C18_Witness ==
    /\ Size(hBoard) = 40
    /\ hCell = <<0, 39>>
    /\ hCount = 9
    /\ hIdx[<<1, -1>>] = <<0, 39>>

====
